---- MODULE Spec2Model ----
(***************************************************************************)
(* pre-commit-go: the hook coordinators (runPreCommit, runPrePush), the    *)
(* plain "run" command (cmdRun) and the concurrent check runner           *)
(* (runChecks, callRun) of main.go, as one state machine.                  *)
(*                                                                         *)
(* The repository (package scm) is the environment: Stash, Checkout,       *)
(* Restore and Between may each fail or succeed.  A line of the pre-push   *)
(* stdin protocol is a sequence of space-free tokens, the single spaces    *)
(* between them and the final newline implied.                             *)
(***************************************************************************)
EXTENDS Integers, Sequences, FiniteSets, TLC

\* ---------------------------------------------------------------- bounds
MaxChecks == 2        \* enabled checks of a "run" invocation
MaxHookChecks == 1    \* enabled checks of a hook invocation
MaxLines == 3         \* lines on stdin of a pre-push hook
MaxFields == 4        \* tokens of one stdin line
MaxBudget == 1        \* largest max_duration of a mode, seconds
MaxCalls == 3         \* concurrent invocations of callRun
MaxPkgs == 3          \* test packages covg goes through
MaxPrereqChecks == 2  \* enabled checks of a "prereq" invocation
MaxPrereqs == 2       \* prerequisites of one check
MaxParts == 4         \* dot-separated parts of min_version

\* ------------------------------------------------------------- constants
gitNilCommit == "0000000000000000000000000000000000000000"
GitInitialCommit == "4b825dc642cb6eb9a060e54bf8d69288fbee4904"
Current == "current"
CommitA == "1111111111111111111111111111111111111111"
CommitB == "2222222222222222222222222222222222222222"
RefName == "refs/heads/a"
Branch == "master"
IgnorePatterns == "ignorePatterns"

Nil == "nil"
EOF == "EOF"
ErrRead == "ErrRead"
ErrStash == "ErrStash"
ErrCheckout == "ErrCheckout"
ErrBetween == "ErrBetween"
ErrChecks == "ErrChecksFailed"
ErrProtocol == "ErrUnexpectedStdin"
ErrUpstream == "ErrUpstream"
ErrGetwd == "ErrGetwd"
ErrGetRepo == "ErrGetRepo"
ErrRunProfile == "ErrRunProfile"
ErrCoverage == "ErrCoverage"
silentError == "silent error"
ErrMissing == "ErrPrerequisitesMissing"
ErrInstall == "ErrInstallationFailed"
URLs == {"url1", "url2"}
ErrCheckoutBack == "ErrCheckoutBack"
ErrRestore == "ErrRestore"

Commits == {CommitA, CommitB}
Shas == Commits \cup {gitNilCommit}
Tokens == Shas \cup {RefName}
Lines == UNION {[1..n -> Tokens] : n \in 0..MaxFields}
Durations == 0..(MaxBudget + 1)

VARIABLES
  hook,           \* "pre-commit", "pre-push" (cmdRunHook) or "run" (cmdRun)
  pc,             \* position of the main goroutine
  repoHEAD,       \* commit the working tree is on
  repoRef,        \* branch checked out, "" when detached
  dirty,          \* the working tree holds uncommitted modifications
  snapshot,       \* a stash is held by the repository
  numChecks,      \* len(enabledChecks)
  maxDuration,    \* max seconds of the mode
  inst,           \* the check instance each element of enabledChecks points to
  locker,         \* per instance: the check implements sync.Locker
  previous, previousRef, curr, stashed, triedToStash,
  err,            \* the error the coordinator will return
  line,           \* the line just read, until it is matched
  from, to,       \* the commits of the current record
  change,         \* the change handed to runChecks
  nread,          \* lines consumed from stdin
  \* runChecks
  wst,            \* position of each worker goroutine
  werr,           \* what Run returned, per check
  wdur,           \* measured duration in seconds, per check
  errs,           \* the buffered channel of errors
  lockHeld,       \* per instance: the goroutine holding its lock, 0 when free
  wg,             \* the WaitGroup counter
  next,           \* index of the check the spawn loop is at
  rcErr,          \* runChecks' local err
  rcResult,       \* what runChecks returned
  printed,        \* the errors written to stdout
  \* history
  rec,            \* the fields <<local-sha, remote-sha>> of the current record
  recOps,         \* repository operations and checks invoked for the current record
  betweenArgs,    \* the arguments of the last Between call
  nStash, nRestore,
  nCheckout,      \* Checkout calls made by the loop of runPrePush
  needsOther,     \* a record asked for a commit other than the one checked out at entry
  partial,        \* what ReadString returned together with io.EOF: "none" or its kind
  cleanup,        \* the repository calls issued by the deferred cleanup, in order
  didStash,       \* what Stash returned: "none" before the call, "yes", "no" or "failed"
  primary,        \* the error held when the restoration began
  restErrs,       \* the errors of the restoration steps, in order
  \* cmd/covg
  globalFlag,     \* the -g flag
  npkgs,          \* len(change.All().TestPackages())
  pkgIdx,         \* packages the loop of mainImpl has gone through
  profiles,       \* what each call of printProfile returned, in order
  covgRet,        \* what mainImpl returned
  exitCode,       \* exit code of the covg process, -1 while it runs
  \* cmdInstallPrereq
  chk,            \* index of the check the outer loop is at
  pleft,          \* prerequisites of that check still to be gone through
  number,         \* prerequisites counted so far
  gor,            \* position of the goroutine of each prerequisite
  urlCh,          \* c, the buffered channel of URLs
  urls,           \* m, the URLs received, without duplicates
  pwg,            \* the WaitGroup counter of cmdInstallPrereq
  \* loadConfigFile
  minVersion,     \* config.MinVersion: its dot-separated parts, each a sequence of characters
  loaded          \* what loadConfigFile returned: "none" before the call, "config" or "nil"

repoVars == <<repoHEAD, repoRef, dirty, snapshot>>
cfgVars == <<hook, numChecks, maxDuration, inst, locker>>
ppVars == <<previous, previousRef, curr, stashed, triedToStash, line, from, to, nread>>
rcVars == <<wst, werr, wdur, errs, lockHeld, wg, next, rcErr, rcResult, printed>>
loadVars == <<minVersion, loaded>>
prereqVars == <<chk, pleft, number, gor, urlCh, urls, pwg>>
covgVars == <<globalFlag, npkgs, pkgIdx, profiles, covgRet, exitCode>>
histVars == <<rec, recOps, betweenArgs, nStash, nRestore, nCheckout, cleanup,
              needsOther, partial,
              didStash, primary, restErrs>>
vars == <<pc, err, change, repoVars, cfgVars, ppVars, rcVars, histVars, covgVars,
          prereqVars, loadVars>>

Checks == 1..numChecks
Instances == 1..numChecks

Min(S) == CHOOSE x \in S : \A y \in S : x <= y

\* ------------------------------------------------------------ repository
\* Checkout(p): a branch name attaches HEAD to the branch, a commit detaches.
CheckoutHEAD(p) == IF p = Branch THEN CommitA ELSE p
CheckoutRef(p) == IF p = Branch THEN Branch ELSE ""

\* The change Between produces for its arguments; it may also find nothing.
NewChange(a, b, ign) == [a |-> a, b |-> b, ignore |-> ign]
NilChange == [a |-> Nil, b |-> Nil, ignore |-> Nil]

\* ------------------------------------------------------------- rePrePush
\* "^(.+?) ([0-9a-f]{40}) (.+?) ([0-9a-f]{40})$"
IsSha(tok) == tok \in Shas

FindStringSubmatch(l) ==
  LET n == Len(l)
      cand == {i \in 2..(n - 2) : IsSha(l[i])}
  IN IF n >= 4 /\ IsSha(l[n]) /\ cand # {}
     THEN LET i == Min(cand)
          IN <<l, SubSeq(l, 1, i - 1), l[i], SubSeq(l, i + 1, n - 1), l[n]>>
     ELSE <<>>

\* -------------------------------------------------------------- runChecks
NilErr == [kind |-> "nil", check |-> 0]
CheckErr(i) == [kind |-> "failed", check |-> i]
TookTooLong(i) == [kind |-> "took", check |-> i]

\* TooLong with one second of grace: duration > (maxDuration+1)*time.Second.
TooLongWithGrace(d) == d > maxDuration + 1

\* duration > time.Duration(maxDuration)*time.Second
TooLong(d) == d > maxDuration

IdleWorkers == [i \in Checks |-> "idle"]
NoLocks == [k \in Instances |-> 0]
NoErrs == [i \in Checks |-> NilErr]
NoDurs == [i \in Checks |-> 0]

\* The call runChecks(config, c, modes), up to the first iteration of the loop.
EnterRunChecks(c) ==
  /\ change' = c
  /\ wst' = IdleWorkers /\ werr' = NoErrs /\ wdur' = NoDurs
  /\ errs' = <<>> /\ wg' = 0 /\ next' = 1
  /\ rcErr' = NilErr /\ rcResult' = Nil /\ printed' = <<>>
  /\ UNCHANGED lockHeld
  /\ pc' = IF numChecks = 0 THEN "rc_wait" ELSE "rc_spawn"

\* The locals of runChecks are gone once the caller has its result.
LeaveRunChecks ==
  /\ wst' = IdleWorkers /\ werr' = NoErrs /\ wdur' = NoDurs
  /\ errs' = <<>> /\ wg' = 0 /\ next' = 1
  /\ rcErr' = NilErr /\ rcResult' = Nil /\ printed' = <<>>
  /\ UNCHANGED lockHeld

\* for _, c := range enabledChecks { wg.Add(1); go func(...) }
RCSpawn ==
  /\ pc = "rc_spawn"
  /\ next <= numChecks
  /\ wg' = wg + 1
  /\ wst' = [wst EXCEPT ![next] = "start"]
  /\ next' = next + 1
  /\ pc' = IF next = numChecks THEN "rc_wait" ELSE "rc_spawn"
  /\ UNCHANGED <<err, change, repoVars, cfgVars, loadVars, prereqVars, covgVars, ppVars, histVars,
                 werr, wdur, errs, lockHeld, rcErr, rcResult, printed>>

\* RCWait without the barrier: the goroutines are not joined.
RCNoWait ==
  /\ pc = "rc_wait"
  /\ pc' = "rc_drain"
  /\ UNCHANGED <<err, change, repoVars, cfgVars, loadVars, prereqVars, covgVars, ppVars, histVars, rcVars>>

\* wg.Wait()
RCWait ==
  /\ pc = "rc_wait"
  /\ wg = 0
  /\ pc' = "rc_drain"
  /\ UNCHANGED <<err, change, repoVars, cfgVars, loadVars, prereqVars, covgVars, ppVars, histVars, rcVars>>

\* select { case err = <-errs: fmt.Printf("%s\n", err) ... }
RCDrain ==
  /\ pc = "rc_drain"
  /\ errs # <<>>
  /\ rcErr' = Head(errs)
  /\ errs' = Tail(errs)
  /\ printed' = Append(printed, Head(errs))
  /\ UNCHANGED <<pc, err, change, repoVars, cfgVars, loadVars, prereqVars, covgVars, ppVars, histVars,
                 wst, werr, wdur, lockHeld, wg, next, rcResult>>

\* RCReturn with the drained error dropped: "return nil" after the loop.
RCReturnNil ==
  /\ pc = "rc_drain"
  /\ errs = <<>>
  /\ rcResult' = Nil
  /\ pc' = "rc_ret"
  /\ UNCHANGED <<err, change, repoVars, cfgVars, loadVars, prereqVars, covgVars, ppVars, histVars,
                 wst, werr, wdur, errs, lockHeld, wg, next, rcErr, printed>>

\* select { ... default: if err != nil { return fmt.Errorf(...) }; return err }
RCReturn ==
  /\ pc = "rc_drain"
  /\ errs = <<>>
  /\ rcResult' = IF rcErr # NilErr THEN ErrChecks ELSE Nil
  /\ pc' = "rc_ret"
  /\ UNCHANGED <<err, change, repoVars, cfgVars, loadVars, prereqVars, covgVars, ppVars, histVars,
                 wst, werr, wdur, errs, lockHeld, wg, next, rcErr, printed>>

\* LockOf with one lock shared by every check instead of one per instance.
LockOfGlobal(i) == 1

\* if l, ok := check.(sync.Locker); ok { l.Lock() ... }: the lock of the instance.
LockOf(i) == inst[i]

\* WorkerCallRun that gives up once a sibling has failed (fail-fast).
WorkerCallRunFailFast(i) ==
  /\ wst[i] = "start"
  /\ \A j \in Checks : werr[j] = NilErr
  /\ IF locker[inst[i]]
     THEN /\ lockHeld[inst[i]] = 0
          /\ lockHeld' = [lockHeld EXCEPT ![inst[i]] = i]
     ELSE UNCHANGED lockHeld
  /\ wst' = [wst EXCEPT ![i] = "running"]
  /\ recOps' = recOps \cup {"Run"}
  /\ UNCHANGED <<pc, err, change, repoVars, cfgVars, loadVars, prereqVars, covgVars, ppVars,
                 werr, wdur, errs, wg, next, rcErr, rcResult, printed,
                 rec, betweenArgs, nStash, nRestore, nCheckout, needsOther, partial, cleanup,
                 didStash, primary, restErrs>>

\* The goroutine of check i is in callRun: it takes the lock of a Locker and
\* check.Run starts.
WorkerCallRun(i) ==
  /\ wst[i] = "start"
  /\ IF locker[LockOf(i)]
     THEN /\ lockHeld[LockOf(i)] = 0
          /\ lockHeld' = [lockHeld EXCEPT ![LockOf(i)] = i]
     ELSE UNCHANGED lockHeld
  /\ wst' = [wst EXCEPT ![i] = "running"]
  /\ recOps' = recOps \cup {"Run"}
  /\ UNCHANGED <<pc, err, change, repoVars, cfgVars, loadVars, prereqVars, covgVars, ppVars,
                 werr, wdur, errs, wg, next, rcErr, rcResult, printed,
                 rec, betweenArgs, nStash, nRestore, nCheckout, needsOther, partial, cleanup,
                 didStash, primary, restErrs>>

\* check.Run returns; callRun returns (err, duration).
WorkerRunReturns(i) ==
  /\ wst[i] = "running"
  /\ \E e \in {NilErr, CheckErr(i)}, d \in Durations :
       /\ werr' = [werr EXCEPT ![i] = e]
       /\ wdur' = [wdur EXCEPT ![i] = d]
       /\ wst' = [wst EXCEPT ![i] = IF e # NilErr THEN "sendErr"
                                    ELSE IF TooLong(d) THEN "sendTook"
                                    ELSE "exit"]
  /\ lockHeld' = IF locker[LockOf(i)]
                 THEN [lockHeld EXCEPT ![LockOf(i)] = 0]
                 ELSE lockHeld
  /\ UNCHANGED <<pc, err, change, repoVars, cfgVars, loadVars, prereqVars, covgVars, ppVars, histVars,
                 errs, wg, next, rcErr, rcResult, printed>>

\* if err != nil { errs <- err }
WorkerSendErr(i) ==
  /\ wst[i] = "sendErr"
  /\ Len(errs) < numChecks
  /\ errs' = Append(errs, werr[i])
  /\ wst' = [wst EXCEPT ![i] = IF TooLong(wdur[i]) THEN "sendTook" ELSE "exit"]
  /\ UNCHANGED <<pc, err, change, repoVars, cfgVars, loadVars, prereqVars, covgVars, ppVars, histVars,
                 werr, wdur, lockHeld, wg, next, rcErr, rcResult, printed>>

\* if duration > ... { errs <- fmt.Errorf("check %s took %1.2fs", ...) }
WorkerSendTook(i) ==
  /\ wst[i] = "sendTook"
  /\ Len(errs) < numChecks
  /\ errs' = Append(errs, TookTooLong(i))
  /\ wst' = [wst EXCEPT ![i] = "exit"]
  /\ UNCHANGED <<pc, err, change, repoVars, cfgVars, loadVars, prereqVars, covgVars, ppVars, histVars,
                 werr, wdur, lockHeld, wg, next, rcErr, rcResult, printed>>

\* defer wg.Done()
WorkerDone(i) ==
  /\ wst[i] = "exit"
  /\ wst' = [wst EXCEPT ![i] = "done"]
  /\ wg' = wg - 1
  /\ UNCHANGED <<pc, err, change, repoVars, cfgVars, loadVars, prereqVars, covgVars, ppVars, histVars,
                 werr, wdur, errs, lockHeld, next, rcErr, rcResult, printed>>

Worker ==
  \E i \in Checks :
    \/ WorkerCallRun(i)
    \/ WorkerRunReturns(i)
    \/ WorkerSendErr(i)
    \/ WorkerSendTook(i)
    \/ WorkerDone(i)

\* ----------------------------------------------------------- runPreCommit
\* PreCommitStash that goes on after a failed Stash instead of returning.
PreCommitStashGoesOn ==
  /\ pc = "start" /\ hook = "pre-commit"
  /\ nStash' = nStash + 1
  /\ recOps' = recOps \cup {"Stash"}
  /\ \E ok \in BOOLEAN :
       IF ok
       THEN /\ stashed' = dirty /\ didStash' = (IF dirty THEN "yes" ELSE "no")
            /\ snapshot' = dirty /\ dirty' = FALSE
            /\ err' = Nil /\ pc' = "pc_between"
            /\ UNCHANGED primary
       ELSE /\ err' = ErrStash /\ primary' = ErrStash
            /\ didStash' = "failed"
            /\ pc' = "pc_between"
            /\ UNCHANGED <<stashed, snapshot, dirty>>
  /\ UNCHANGED <<change, repoHEAD, repoRef, cfgVars, loadVars, prereqVars, covgVars, rcVars,
                 previous, previousRef, curr, triedToStash, line, from, to, nread,
                 rec, betweenArgs, nRestore, restErrs,
                 nCheckout, needsOther, partial, cleanup>>

\* stashed, err := repo.Stash(); if err != nil { return err }
PreCommitStash ==
  /\ pc = "start" /\ hook = "pre-commit"
  /\ nStash' = nStash + 1
  /\ recOps' = recOps \cup {"Stash"}
  /\ \E ok \in BOOLEAN :
       IF ok
       THEN /\ stashed' = dirty /\ didStash' = (IF dirty THEN "yes" ELSE "no")
            /\ snapshot' = dirty /\ dirty' = FALSE
            /\ err' = Nil /\ pc' = "pc_between"
            /\ UNCHANGED primary
       ELSE /\ err' = ErrStash /\ primary' = ErrStash
            /\ didStash' = "failed"
            /\ pc' = "done"
            /\ UNCHANGED <<stashed, snapshot, dirty>>
  /\ UNCHANGED <<change, repoHEAD, repoRef, cfgVars, loadVars, prereqVars, covgVars, rcVars,
                 previous, previousRef, curr, triedToStash, line, from, to, nread,
                 rec, betweenArgs, nRestore, restErrs,
                 nCheckout, needsOther, partial, cleanup>>

\* change, err = repo.Between(scm.Current, repo.HEAD(), config.IgnorePatterns)
\* if change != nil { err = runChecks(...) }
PreCommitBetween ==
  /\ pc = "pc_between"
  /\ betweenArgs' = <<Current, repoHEAD, IgnorePatterns>>
  /\ recOps' = recOps \cup {"Between"}
  /\ \E out \in {"change", "nothing", "error"} :
       IF out = "change"
       THEN /\ err' = Nil
            /\ EnterRunChecks(NewChange(Current, repoHEAD, IgnorePatterns))
       ELSE /\ err' = IF out = "error" THEN ErrBetween ELSE Nil
            /\ change' = NilChange
            /\ pc' = "pc_restore"
            /\ UNCHANGED rcVars
  /\ UNCHANGED <<repoVars, cfgVars, loadVars, prereqVars, covgVars, ppVars,
                 rec, nStash, nRestore, didStash, primary, restErrs,
                 nCheckout, needsOther, partial, cleanup>>

\* err = runChecks(config, change, []checks.Mode{checks.PreCommit})
PreCommitAfterChecks ==
  /\ pc = "rc_ret" /\ hook = "pre-commit"
  /\ err' = rcResult
  /\ pc' = "pc_restore"
  /\ LeaveRunChecks
  /\ UNCHANGED <<change, repoVars, cfgVars, loadVars, prereqVars, covgVars, ppVars, histVars>>

\* PreCommitRestore that restores only after a clean run: "if stashed && err == nil".
PreCommitRestoreOnSuccess ==
  /\ pc = "pc_restore"
  /\ primary' = err
  /\ pc' = "done"
  /\ IF stashed /\ err = Nil
     THEN /\ nRestore' = nRestore + 1
          /\ \E ok \in BOOLEAN :
               IF ok
               THEN /\ dirty' = (dirty \/ snapshot) /\ snapshot' = FALSE
                    /\ UNCHANGED <<err, restErrs>>
               ELSE /\ restErrs' = Append(restErrs, ErrRestore)
                    /\ err' = IF err = Nil THEN ErrRestore ELSE err
                    /\ UNCHANGED <<dirty, snapshot>>
     ELSE UNCHANGED <<nRestore, dirty, snapshot, err, restErrs>>
  /\ UNCHANGED <<change, repoHEAD, repoRef, cfgVars, loadVars, prereqVars, covgVars, ppVars, rcVars,
                 rec, recOps, betweenArgs, nStash, didStash,
                 nCheckout, needsOther, partial, cleanup>>

\* if stashed { if err2 := repo.Restore(); err == nil { err = err2 } }; return err
PreCommitRestore ==
  /\ pc = "pc_restore"
  /\ primary' = err
  /\ pc' = "done"
  /\ IF stashed
     THEN /\ nRestore' = nRestore + 1
          /\ \E ok \in BOOLEAN :
               IF ok
               THEN /\ dirty' = (dirty \/ snapshot) /\ snapshot' = FALSE
                    /\ UNCHANGED <<err, restErrs>>
               ELSE /\ restErrs' = Append(restErrs, ErrRestore)
                    /\ err' = IF err = Nil THEN ErrRestore ELSE err
                    /\ UNCHANGED <<dirty, snapshot>>
     ELSE UNCHANGED <<nRestore, dirty, snapshot, err, restErrs>>
  /\ UNCHANGED <<change, repoHEAD, repoRef, cfgVars, loadVars, prereqVars, covgVars, ppVars, rcVars,
                 rec, recOps, betweenArgs, nStash, didStash,
                 nCheckout, needsOther, partial, cleanup>>

\* ------------------------------------------------------------- runPrePush
\* CleanupOrder with the two deferred steps the other way round.
CleanupOrderRestoreFirst == <<"defer_restore", "defer_checkout", "done">>

\* defer func() { if curr != previous { ... }; if stashed { ... } }(): the
\* steps the deferred function goes through, then the return.
CleanupOrder == <<"defer_checkout", "defer_restore", "done">>

CleanupNext(step) ==
  CleanupOrder[1 + CHOOSE k \in 1..2 : CleanupOrder[k] = step]

\* previous := repo.HEAD(); previousRef := repo.Ref(); curr := previous; ...
PrePushEntry ==
  /\ pc = "start" /\ hook = "pre-push"
  /\ previous' = repoHEAD
  /\ previousRef' = repoRef
  /\ curr' = repoHEAD
  /\ stashed' = FALSE
  /\ triedToStash' = FALSE
  /\ line' = <<>>
  /\ pc' = "pp_read"
  /\ UNCHANGED <<err, change, repoVars, cfgVars, loadVars, prereqVars, covgVars, from, to, nread, rcVars, histVars>>

\* What the data is that ReadString returned without a final newline: nothing,
\* or a line the loop body would reject, skip as a deletion or run checks for.
KindOf(l) ==
  IF l = <<>> THEN "none"
  ELSE LET m == FindStringSubmatch(l)
       IN IF Len(m) # 5 THEN "malformed"
          ELSE IF m[3] = gitNilCommit THEN "deletion" ELSE "record"

PartialKinds == {KindOf(l) : l \in Lines}

\* if line, err = bio.ReadString('\n'); err != nil { break }
\* ReadString returns the data read before the error along with the error.
PrePushRead ==
  /\ pc = "pp_read"
  /\ \/ /\ nread < MaxLines
        /\ \E l \in Lines : line' = l
        /\ nread' = nread + 1
        /\ err' = Nil
        /\ pc' = "pp_match"
        /\ UNCHANGED partial
     \/ /\ \E e \in {EOF, ErrRead} : err' = e
        /\ \E k \in PartialKinds : partial' = IF err' = EOF THEN k ELSE "none"
        /\ line' = <<>>
        /\ pc' = "pp_eof"
        /\ UNCHANGED nread
  /\ from' = Nil /\ to' = Nil /\ change' = NilChange
  /\ rec' = <<>> /\ recOps' = {}
  /\ UNCHANGED <<repoVars, cfgVars, loadVars, prereqVars, covgVars, rcVars,
                 previous, previousRef, curr, stashed, triedToStash,
                 betweenArgs, nStash, nRestore, didStash, primary, restErrs,
                 nCheckout, needsOther, cleanup>>

\* IsDeletion testing the remote sha: "if from == gitNilCommit { continue }".
IsDeletionRemote(f, t) == f = gitNilCommit

\* if to == gitNilCommit { continue }
IsDeletion(f, t) == t = gitNilCommit

\* FromOrRoot without the substitution: the nil commit is passed on.
FromUnchanged(f) == f

\* if from == gitNilCommit { from = scm.GitInitialCommit }
FromOrRoot(f) == IF f = gitNilCommit THEN GitInitialCommit ELSE f

\* BetweenCallArgs with the two commits swapped: repo.Between(to, from, ...).
BetweenCallArgsSwapped(f, t) == <<t, FromOrRoot(f), IgnorePatterns>>

\* repo.Between(from, to, config.IgnorePatterns)
BetweenCallArgs(f, t) == <<FromOrRoot(f), t, IgnorePatterns>>

\* matches := rePrePush.FindStringSubmatch(line[:len(line)-1]) ... if to != curr
PrePushMatch ==
  /\ pc = "pp_match"
  /\ LET matches == FindStringSubmatch(line) IN
       IF Len(matches) # 5
       THEN /\ err' = ErrProtocol /\ primary' = ErrProtocol
            /\ pc' = CleanupOrder[1]
            /\ UNCHANGED <<from, to, rec, needsOther>>
       ELSE /\ from' = matches[5]
            /\ to' = matches[3]
            /\ rec' = <<matches[3], matches[5]>>
            /\ needsOther' = (needsOther \/ (~IsDeletion(matches[5], matches[3])
                                               /\ matches[3] # previous))
            /\ pc' = IF IsDeletion(matches[5], matches[3]) THEN "pp_read"
                     ELSE IF matches[3] # curr
                          THEN (IF ~triedToStash THEN "pp_stash" ELSE "pp_checkout")
                          ELSE "pp_between"
            /\ UNCHANGED <<err, primary>>
  /\ line' = <<>>
  /\ UNCHANGED <<change, repoVars, cfgVars, loadVars, prereqVars, covgVars, rcVars,
                 previous, previousRef, curr, stashed, triedToStash, nread,
                 recOps, betweenArgs, nStash, nRestore, didStash, restErrs,
                 nCheckout, partial, cleanup>>

\* PrePushStash that does not remember the attempt (triedToStash stays false).
PrePushStashForgets ==
  /\ pc = "pp_stash"
  /\ triedToStash' = triedToStash
  /\ nStash' = nStash + 1
  /\ recOps' = recOps \cup {"Stash"}
  /\ \E ok \in BOOLEAN :
       IF ok
       THEN /\ stashed' = dirty /\ didStash' = (IF dirty THEN "yes" ELSE "no")
            /\ snapshot' = dirty /\ dirty' = FALSE
            /\ err' = Nil /\ pc' = "pp_checkout"
            /\ UNCHANGED primary
       ELSE /\ stashed' = FALSE /\ didStash' = "failed"
            /\ err' = ErrStash /\ primary' = ErrStash
            /\ pc' = CleanupOrder[1]
            /\ UNCHANGED <<snapshot, dirty>>
  /\ UNCHANGED <<change, repoHEAD, repoRef, cfgVars, loadVars, prereqVars, covgVars, rcVars,
                 previous, previousRef, curr, line, from, to, nread,
                 rec, betweenArgs, nRestore, restErrs,
                 nCheckout, needsOther, partial, cleanup>>

\* triedToStash = true; if stashed, err = repo.Stash(); err != nil { return }
PrePushStash ==
  /\ pc = "pp_stash"
  /\ triedToStash' = TRUE
  /\ nStash' = nStash + 1
  /\ recOps' = recOps \cup {"Stash"}
  /\ \E ok \in BOOLEAN :
       IF ok
       THEN /\ stashed' = dirty /\ didStash' = (IF dirty THEN "yes" ELSE "no")
            /\ snapshot' = dirty /\ dirty' = FALSE
            /\ err' = Nil /\ pc' = "pp_checkout"
            /\ UNCHANGED primary
       ELSE /\ stashed' = FALSE /\ didStash' = "failed"
            /\ err' = ErrStash /\ primary' = ErrStash
            /\ pc' = CleanupOrder[1]
            /\ UNCHANGED <<snapshot, dirty>>
  /\ UNCHANGED <<change, repoHEAD, repoRef, cfgVars, loadVars, prereqVars, covgVars, rcVars,
                 previous, previousRef, curr, line, from, to, nread,
                 rec, betweenArgs, nRestore, restErrs,
                 nCheckout, needsOther, partial, cleanup>>

\* curr = to; if err = repo.Checkout(string(to)); err != nil { return }
PrePushCheckout ==
  /\ pc = "pp_checkout"
  /\ curr' = to
  /\ nCheckout' = nCheckout + 1
  /\ recOps' = recOps \cup {"Checkout"}
  /\ \E ok \in BOOLEAN :
       IF ok
       THEN /\ repoHEAD' = CheckoutHEAD(to) /\ repoRef' = CheckoutRef(to)
            /\ err' = Nil /\ pc' = "pp_between"
            /\ UNCHANGED primary
       ELSE /\ err' = ErrCheckout /\ primary' = ErrCheckout
            /\ pc' = CleanupOrder[1]
            /\ UNCHANGED <<repoHEAD, repoRef>>
  /\ UNCHANGED <<change, dirty, snapshot, cfgVars, loadVars, prereqVars, covgVars, rcVars,
                 previous, previousRef, stashed, triedToStash, line, from, to, nread,
                 rec, betweenArgs, nStash, nRestore, didStash, restErrs,
                 needsOther, partial, cleanup>>

\* change, err := repo.Between(from, to, config.IgnorePatterns)
\* if err != nil { return err }; if err = runChecks(...)
PrePushBetween ==
  /\ pc = "pp_between"
  /\ from' = FromOrRoot(from)
  /\ betweenArgs' = BetweenCallArgs(from, to)
  /\ recOps' = recOps \cup {"Between"}
  /\ \E out \in {"change", "nothing", "error"} :
       IF out = "error"
       THEN /\ err' = ErrBetween /\ primary' = ErrBetween
            /\ change' = NilChange
            /\ pc' = CleanupOrder[1]
            /\ UNCHANGED rcVars
       ELSE /\ EnterRunChecks(IF out = "change"
                              THEN LET a == BetweenCallArgs(from, to)
                                   IN NewChange(a[1], a[2], a[3])
                              ELSE NilChange)
            /\ UNCHANGED <<err, primary>>
  /\ UNCHANGED <<repoVars, cfgVars, loadVars, prereqVars, covgVars,
                 previous, previousRef, curr, stashed, triedToStash, line, to, nread,
                 rec, nStash, nRestore, didStash, restErrs,
                 nCheckout, needsOther, partial, cleanup>>

\* PrePushAfterChecks that keeps the failure and goes on with the next record.
PrePushAfterChecksGoesOn ==
  /\ pc = "rc_ret" /\ hook = "pre-push"
  /\ IF rcResult # Nil
     THEN /\ err' = rcResult /\ primary' = rcResult
          /\ pc' = "pp_read"
     ELSE /\ pc' = "pp_read"
          /\ UNCHANGED <<err, primary>>
  /\ LeaveRunChecks
  /\ UNCHANGED <<change, repoVars, cfgVars, loadVars, prereqVars, covgVars, ppVars,
                 rec, recOps, betweenArgs, nStash, nRestore, didStash, restErrs,
                 nCheckout, needsOther, partial, cleanup>>

\* if err = runChecks(config, change, ...); err != nil { return err }
PrePushAfterChecks ==
  /\ pc = "rc_ret" /\ hook = "pre-push"
  /\ IF rcResult # Nil
     THEN /\ err' = rcResult /\ primary' = rcResult
          /\ pc' = CleanupOrder[1]
     ELSE /\ pc' = "pp_read"
          /\ UNCHANGED <<err, primary>>
  /\ LeaveRunChecks
  /\ UNCHANGED <<change, repoVars, cfgVars, loadVars, prereqVars, covgVars, ppVars,
                 rec, recOps, betweenArgs, nStash, nRestore, didStash, restErrs,
                 nCheckout, needsOther, partial, cleanup>>

\* PrePushEnd without "if err == io.EOF { err = nil }".
PrePushEndKeepsEOF ==
  /\ pc = "pp_eof"
  /\ err' = err
  /\ primary' = err
  /\ pc' = CleanupOrder[1]
  /\ UNCHANGED <<change, repoVars, cfgVars, loadVars, prereqVars, covgVars, ppVars, rcVars,
                 rec, recOps, betweenArgs, nStash, nRestore, didStash, restErrs,
                 nCheckout, needsOther, partial, cleanup>>

\* if err == io.EOF { err = nil }; return
PrePushEnd ==
  /\ pc = "pp_eof"
  /\ err' = IF err = EOF THEN Nil ELSE err
  /\ primary' = IF err = EOF THEN Nil ELSE err
  /\ pc' = CleanupOrder[1]
  /\ UNCHANGED <<change, repoVars, cfgVars, loadVars, prereqVars, covgVars, ppVars, rcVars,
                 rec, recOps, betweenArgs, nStash, nRestore, didStash, restErrs,
                 nCheckout, needsOther, partial, cleanup>>

\* DeferCheckout that checks out the original reference unconditionally.
DeferCheckoutAlways ==
  /\ pc = "defer_checkout"
  /\ pc' = CleanupNext("defer_checkout")
  /\ cleanup' = IF TRUE THEN Append(cleanup, "Checkout") ELSE cleanup
  /\ IF TRUE
     THEN LET p == IF previousRef = "" THEN previous ELSE previousRef IN
          \E ok \in BOOLEAN :
            IF ok
            THEN /\ repoHEAD' = CheckoutHEAD(p) /\ repoRef' = CheckoutRef(p)
                 /\ UNCHANGED <<err, restErrs>>
            ELSE /\ restErrs' = Append(restErrs, ErrCheckoutBack)
                 /\ err' = IF err = Nil THEN ErrCheckoutBack ELSE err
                 /\ UNCHANGED <<repoHEAD, repoRef>>
     ELSE UNCHANGED <<repoHEAD, repoRef, err, restErrs>>
  /\ UNCHANGED <<change, dirty, snapshot, cfgVars, loadVars, prereqVars, covgVars, ppVars, rcVars,
                 rec, recOps, betweenArgs, nStash, nRestore, didStash, primary,
                 nCheckout, needsOther, partial>>

\* defer: if curr != previous { ... repo.Checkout(p) ... }
DeferCheckout ==
  /\ pc = "defer_checkout"
  /\ pc' = CleanupNext("defer_checkout")
  /\ cleanup' = IF curr # previous THEN Append(cleanup, "Checkout") ELSE cleanup
  /\ IF curr # previous
     THEN LET p == IF previousRef = "" THEN previous ELSE previousRef IN
          \E ok \in BOOLEAN :
            IF ok
            THEN /\ repoHEAD' = CheckoutHEAD(p) /\ repoRef' = CheckoutRef(p)
                 /\ UNCHANGED <<err, restErrs>>
            ELSE /\ restErrs' = Append(restErrs, ErrCheckoutBack)
                 /\ err' = IF err = Nil THEN ErrCheckoutBack ELSE err
                 /\ UNCHANGED <<repoHEAD, repoRef>>
     ELSE UNCHANGED <<repoHEAD, repoRef, err, restErrs>>
  /\ UNCHANGED <<change, dirty, snapshot, cfgVars, loadVars, prereqVars, covgVars, ppVars, rcVars,
                 rec, recOps, betweenArgs, nStash, nRestore, didStash, primary,
                 nCheckout, needsOther, partial>>

\* DeferRestore that lets the restoration error win: "if err2 != nil { err = err2 }".
DeferRestoreOverwrites ==
  /\ pc = "defer_restore"
  /\ pc' = CleanupNext("defer_restore")
  /\ cleanup' = IF stashed THEN Append(cleanup, "Restore") ELSE cleanup
  /\ IF stashed
     THEN /\ nRestore' = nRestore + 1
          /\ \E ok \in BOOLEAN :
               IF ok
               THEN /\ dirty' = (dirty \/ snapshot) /\ snapshot' = FALSE
                    /\ UNCHANGED <<err, restErrs>>
               ELSE /\ restErrs' = Append(restErrs, ErrRestore)
                    /\ err' = ErrRestore
                    /\ UNCHANGED <<dirty, snapshot>>
     ELSE UNCHANGED <<nRestore, dirty, snapshot, err, restErrs>>
  /\ UNCHANGED <<change, repoHEAD, repoRef, cfgVars, loadVars, prereqVars, covgVars, ppVars, rcVars,
                 rec, recOps, betweenArgs, nStash, didStash, primary,
                 nCheckout, needsOther, partial>>

\* defer: if stashed { if err2 := repo.Restore(); err == nil { err = err2 } }
DeferRestore ==
  /\ pc = "defer_restore"
  /\ pc' = CleanupNext("defer_restore")
  /\ cleanup' = IF stashed THEN Append(cleanup, "Restore") ELSE cleanup
  /\ IF stashed
     THEN /\ nRestore' = nRestore + 1
          /\ \E ok \in BOOLEAN :
               IF ok
               THEN /\ dirty' = (dirty \/ snapshot) /\ snapshot' = FALSE
                    /\ UNCHANGED <<err, restErrs>>
               ELSE /\ restErrs' = Append(restErrs, ErrRestore)
                    /\ err' = IF err = Nil THEN ErrRestore ELSE err
                    /\ UNCHANGED <<dirty, snapshot>>
     ELSE UNCHANGED <<nRestore, dirty, snapshot, err, restErrs>>
  /\ UNCHANGED <<change, repoHEAD, repoRef, cfgVars, loadVars, prereqVars, covgVars, ppVars, rcVars,
                 rec, recOps, betweenArgs, nStash, didStash, primary,
                 nCheckout, needsOther, partial>>

\* ----------------------------------------------------------------- cmdRun
\* old := scm.GitInitialCommit; if !allFiles { old, err = repo.Upstream() }
\* change, err := repo.Between(scm.Current, old, ...); return runChecks(...)
CmdRun ==
  /\ pc = "start" /\ hook = "run"
  /\ \E allFiles \in BOOLEAN, upstream \in {CommitB, ErrUpstream},
        out \in {"change", "nothing", "error"} :
       IF ~allFiles /\ upstream = ErrUpstream
       THEN /\ err' = ErrUpstream /\ pc' = "done"
            /\ UNCHANGED <<change, rcVars, betweenArgs, recOps>>
       ELSE LET old == IF allFiles THEN GitInitialCommit ELSE upstream IN
            /\ betweenArgs' = <<Current, old, IgnorePatterns>>
            /\ recOps' = recOps \cup {"Between"}
            /\ IF out = "error"
               THEN /\ err' = ErrBetween /\ pc' = "done"
                    /\ UNCHANGED <<change, rcVars>>
               ELSE /\ EnterRunChecks(IF out = "change"
                                      THEN NewChange(Current, old, IgnorePatterns)
                                      ELSE NilChange)
                    /\ UNCHANGED err
  /\ UNCHANGED <<repoVars, cfgVars, loadVars, prereqVars, covgVars, ppVars,
                 rec, nStash, nRestore, didStash, primary, restErrs,
                 nCheckout, needsOther, partial, cleanup>>

\* return runChecks(config, change, modes)
CmdRunReturn ==
  /\ pc = "rc_ret" /\ hook = "run"
  /\ err' = rcResult
  /\ pc' = "done"
  /\ UNCHANGED <<change, repoVars, cfgVars, loadVars, prereqVars, covgVars, ppVars, rcVars, histVars>>

\* ------------------------------------------------------- cmd/covg: mainImpl
\* out, err := checks.ProcessProfile(profile, settings) ...
\* if err != nil { ...; return false }; return true
printProfile(e) == e = Nil

\* flag.Parse(); cwd, err := os.Getwd(); repo, err := scm.GetRepo(cwd, "")
CovgSetup ==
  /\ pc = "start" /\ hook = "covg"
  /\ \E g \in BOOLEAN : globalFlag' = g
  /\ \E e \in {Nil, ErrGetwd, ErrGetRepo} :
       /\ err' = e
       /\ IF e # Nil
          THEN covgRet' = e /\ pc' = "cv_main"
          ELSE covgRet' = covgRet /\ pc' = "cv_between"
  /\ UNCHANGED <<change, repoVars, cfgVars, loadVars, prereqVars, ppVars, rcVars, histVars,
                 npkgs, pkgIdx, profiles, exitCode>>

\* change, err := repo.Between(scm.Current, scm.GitInitialCommit, nil)
CovgBetween ==
  /\ pc = "cv_between"
  /\ \E e \in {Nil, ErrBetween} :
       /\ err' = e
       /\ IF e # Nil
          THEN /\ covgRet' = e /\ pc' = "cv_main"
               /\ UNCHANGED <<npkgs, change>>
          ELSE /\ \E n \in 0..MaxPkgs : npkgs' = n
               /\ change' = NewChange(Current, GitInitialCommit, Nil)
               /\ covgRet' = covgRet /\ pc' = "cv_profile"
  /\ UNCHANGED <<repoVars, cfgVars, loadVars, prereqVars, ppVars, rcVars, histVars,
                 globalFlag, pkgIdx, profiles, exitCode>>

\* profile, err := c.RunProfile(change); if err != nil { return err }
CovgRunProfile ==
  /\ pc = "cv_profile"
  /\ \E e \in {Nil, ErrRunProfile} :
       /\ err' = e
       /\ IF e # Nil
          THEN covgRet' = e /\ pc' = "cv_main"
          ELSE /\ covgRet' = covgRet
               /\ pc' = IF globalFlag THEN "cv_global" ELSE "cv_loop"
  /\ UNCHANGED <<change, repoVars, cfgVars, loadVars, prereqVars, ppVars, rcVars, histVars,
                 globalFlag, npkgs, pkgIdx, profiles, exitCode>>

\* if *globalFlag { if !printProfile(&c.Global, profile, "") { return silentError } }
CovgGlobal ==
  /\ pc = "cv_global"
  /\ \E e \in {Nil, ErrCoverage} :
       /\ profiles' = Append(profiles, printProfile(e))
       /\ IF ~printProfile(e)
          THEN covgRet' = silentError /\ pc' = "cv_main"
          ELSE covgRet' = covgRet /\ pc' = "cv_return"
  /\ UNCHANGED <<err, change, repoVars, cfgVars, loadVars, prereqVars, ppVars, rcVars, histVars,
                 globalFlag, npkgs, pkgIdx, exitCode>>

\* for _, pkg := range change.All().TestPackages() { subset := profile.Subset(d)
\*   if len(subset) != 0 { if !printProfile(...) { err = silentError } } else { log } }
CovgPackage ==
  /\ pc = "cv_loop"
  /\ pkgIdx < npkgs
  /\ pkgIdx' = pkgIdx + 1
  /\ \E subset \in {"empty", "inside", "outside"} :
       IF subset = "empty"
       THEN UNCHANGED <<profiles, err>>
       ELSE LET e == IF subset = "inside" THEN Nil ELSE ErrCoverage IN
            /\ profiles' = Append(profiles, printProfile(e))
            /\ err' = IF ~printProfile(e) THEN silentError ELSE err
  /\ UNCHANGED <<pc, change, repoVars, cfgVars, loadVars, prereqVars, ppVars, rcVars, histVars,
                 globalFlag, npkgs, covgRet, exitCode>>

\* return nil (the last statement of mainImpl)
CovgReturn ==
  /\ \/ pc = "cv_return"
     \/ pc = "cv_loop" /\ pkgIdx = npkgs
  /\ covgRet' = Nil
  /\ pc' = "cv_main"
  /\ UNCHANGED <<err, change, repoVars, cfgVars, loadVars, prereqVars, ppVars, rcVars, histVars,
                 globalFlag, npkgs, pkgIdx, profiles, exitCode>>

\* func main() { if err := mainImpl(); err != nil { ...; os.Exit(1) } }
CovgMain ==
  /\ pc = "cv_main"
  /\ exitCode' = IF covgRet # Nil THEN 1 ELSE 0
  /\ pc' = "cv_exit"
  /\ UNCHANGED <<err, change, repoVars, cfgVars, loadVars, prereqVars, ppVars, rcVars, histVars,
                 globalFlag, npkgs, pkgIdx, profiles, covgRet>>

\* ------------------------------------------------------- cmdInstallPrereq
\* enabledChecks, _ := config.EnabledChecks(modes); number := 0
\* c := make(chan string, len(enabledChecks))
PrereqEntry ==
  /\ pc = "start" /\ hook = "prereq"
  /\ chk' = 1 /\ pleft' = 0 /\ number' = 0
  /\ gor' = <<>> /\ urlCh' = <<>> /\ urls' = {} /\ pwg' = 0
  /\ pc' = "ip_spawn"
  /\ UNCHANGED <<err, change, repoVars, cfgVars, loadVars, covgVars, ppVars, rcVars, histVars>>

\* for _, check := range enabledChecks { for _, p := range check.GetPrerequisites()
PrereqNextCheck ==
  /\ pc = "ip_spawn"
  /\ pleft = 0
  /\ IF chk <= numChecks
     THEN /\ \E n \in 0..MaxPrereqs : pleft' = n
          /\ chk' = chk + 1
          /\ UNCHANGED pc
     ELSE /\ pc' = "ip_wait"
          /\ UNCHANGED <<chk, pleft>>
  /\ UNCHANGED <<err, change, repoVars, cfgVars, loadVars, covgVars, ppVars, rcVars, histVars,
                 number, gor, urlCh, urls, pwg>>

\* number++; wg.Add(1); go func(prereq definitions.CheckPrerequisite) {...}(p)
PrereqSpawn ==
  /\ pc = "ip_spawn"
  /\ pleft > 0
  /\ pleft' = pleft - 1
  /\ number' = number + 1
  /\ pwg' = pwg + 1
  /\ gor' = Append(gor, "probe")
  /\ UNCHANGED <<pc, err, change, repoVars, cfgVars, loadVars, covgVars, ppVars, rcVars, histVars,
                 chk, urlCh, urls>>

\* defer wg.Done(); if !prereq.IsPresent() { ... }: the probe returns.
PrereqProbe(g) ==
  /\ gor[g] = "probe"
  /\ \E present \in BOOLEAN :
       IF present
       THEN gor' = [gor EXCEPT ![g] = "done"] /\ pwg' = pwg - 1
       ELSE gor' = [gor EXCEPT ![g] = "send"] /\ pwg' = pwg
  /\ UNCHANGED <<pc, err, change, repoVars, cfgVars, loadVars, covgVars, ppVars, rcVars, histVars,
                 chk, pleft, number, urlCh, urls>>

\* c <- prereq.URL, then the deferred wg.Done()
PrereqSend(g) ==
  /\ gor[g] = "send"
  /\ Len(urlCh) < numChecks
  /\ \E url \in URLs : urlCh' = Append(urlCh, url)
  /\ gor' = [gor EXCEPT ![g] = "done"]
  /\ pwg' = pwg - 1
  /\ UNCHANGED <<pc, err, change, repoVars, cfgVars, loadVars, covgVars, ppVars, rcVars, histVars,
                 chk, pleft, number, urls>>

PrereqGoroutine ==
  \E g \in 1..Len(gor) :
    \/ PrereqProbe(g)
    \/ PrereqSend(g)

\* wg.Wait()
PrereqWait ==
  /\ pc = "ip_wait"
  /\ pwg = 0
  /\ pc' = "ip_drain"
  /\ UNCHANGED <<err, change, repoVars, cfgVars, loadVars, covgVars, ppVars, rcVars, histVars,
                 prereqVars>>

\* for loop { select { case url := <-c: m[url] = true; default: loop = false } }
PrereqDrain ==
  /\ pc = "ip_drain"
  /\ IF urlCh # <<>>
     THEN /\ urls' = urls \cup {Head(urlCh)}
          /\ urlCh' = Tail(urlCh)
          /\ UNCHANGED pc
     ELSE /\ pc' = "ip_install"
          /\ UNCHANGED <<urls, urlCh>>
  /\ UNCHANGED <<err, change, repoVars, cfgVars, loadVars, covgVars, ppVars, rcVars, histVars,
                 chk, pleft, number, gor, pwg>>

\* if len(urls) != 0 { if noUpdate { return errors.New(out) }; go get ... }; return nil
PrereqInstall ==
  /\ pc = "ip_install"
  /\ \E noUpdate \in BOOLEAN, goGet \in {Nil, ErrInstall} :
       err' = IF urls = {} THEN Nil
              ELSE IF noUpdate THEN ErrMissing
              ELSE goGet
  /\ pc' = "done"
  /\ UNCHANGED <<change, repoVars, cfgVars, loadVars, covgVars, ppVars, rcVars, histVars,
                 prereqVars>>

\* --------------------------------------------- parseVersion, loadConfigFile
\* const version = "0.4.4"
version == <<<<"0">>, <<"4">>, <<"4">>>>

Digits == <<"0", "1", "2", "3", "4", "5", "6", "7", "8", "9">>
IsDigit(ch) == \E i \in 1..10 : Digits[i] = ch
DigitVal(ch) == (CHOOSE i \in 1..10 : Digits[i] = ch) - 1

\* The largest value of strconv.ParseInt(i, 10, 32).
MaxInt32 == 2147483647

\* The digits of str as a number, -1 when it does not fit in 32 bits.
RECURSIVE ParseDigits(_, _)
ParseDigits(str, acc) ==
  IF str = <<>> THEN acc
  ELSE LET d == DigitVal(Head(str))
       IN IF acc > (MaxInt32 - d) \div 10 THEN -1
          ELSE ParseDigits(Tail(str), acc * 10 + d)

\* v, err := strconv.ParseInt(i, 10, 32), as <<err == nil, v>> (no sign)
ParseInt(str) ==
  IF str = <<>> \/ \E k \in 1..Len(str) : ~IsDigit(str[k])
  THEN <<FALSE, 0>>
  ELSE LET v == ParseDigits(str, 0)
       IN IF v = -1 THEN <<FALSE, 0>> ELSE <<TRUE, v>>

\* parseVersion converts a "1.2.3" string into []int{1,2,3}: <<err == nil, out>>
parseVersion(v) ==
  IF \E i \in 1..Len(v) : ~ParseInt(v[i])[1]
  THEN <<FALSE, <<>>>>
  ELSE <<TRUE, [i \in 1..Len(v) |-> ParseInt(v[i])[2]]>>

\* parsedVersion, err = parseVersion(version) (init)
parsedVersion == parseVersion(version)[2]

\* for i, v := range configVersion { ... }; return config
RECURSIVE VersionLoop(_, _)
VersionLoop(configVersion, i) ==
  IF i > Len(configVersion) THEN "config"
  ELSE LET v == configVersion[i] IN
       IF Len(parsedVersion) < i
       THEN IF v = 0 THEN VersionLoop(configVersion, i + 1) ELSE "nil"
       ELSE IF parsedVersion[i] > v THEN "config"
       ELSE IF parsedVersion[i] < v THEN "nil"
       ELSE VersionLoop(configVersion, i + 1)

\* content, err := ioutil.ReadFile(pathname); yaml.Unmarshal(content, config);
\* configVersion, err := parseVersion(config.MinVersion); if err != nil { log }
LoadConfigFile ==
  /\ pc = "start" /\ hook = "load"
  /\ \E file \in {"unreadable", "not yaml", "parsed"} :
       IF file = "parsed"
       THEN /\ loaded' = VersionLoop(parseVersion(minVersion)[2], 1)
            /\ pc' = "lc_parsed"
       ELSE /\ loaded' = "nil"
            /\ pc' = "lc_nofile"
  /\ UNCHANGED <<err, change, repoVars, cfgVars, covgVars, prereqVars, ppVars,
                 rcVars, histVars, minVersion>>

\* ---------------------------------------------------------- specifications
\* loadConfigFile has not been called.
InitLoadVars == minVersion = <<>> /\ loaded = "none"

\* cmdInstallPrereq has not been called.
InitPrereqVars ==
  /\ chk = 0 /\ pleft = 0 /\ number = 0
  /\ gor = <<>> /\ urlCh = <<>> /\ urls = {} /\ pwg = 0

\* covg has not been started.
InitCovgVars ==
  /\ globalFlag = FALSE /\ npkgs = 0 /\ pkgIdx = 0
  /\ profiles = <<>> /\ covgRet = Nil /\ exitCode = -1

InitCommon ==
  /\ pc = "start"
  /\ repoHEAD = CommitA
  /\ repoRef \in {"", Branch}
  /\ dirty \in BOOLEAN
  /\ snapshot = FALSE
  /\ maxDuration \in 0..MaxBudget
  /\ previous = Nil /\ previousRef = "" /\ curr = Nil
  /\ stashed = FALSE /\ triedToStash = FALSE
  /\ err = Nil /\ line = <<>> /\ from = Nil /\ to = Nil
  /\ change = NilChange /\ nread = 0
  /\ wst = [i \in 1..numChecks |-> "idle"]
  /\ werr = [i \in 1..numChecks |-> NilErr]
  /\ wdur = [i \in 1..numChecks |-> 0]
  /\ errs = <<>> /\ wg = 0 /\ next = 1
  /\ rcErr = NilErr /\ rcResult = Nil /\ printed = <<>>
  /\ rec = <<>> /\ recOps = {} /\ betweenArgs = <<>>
  /\ nStash = 0 /\ nRestore = 0 /\ didStash = "none"
  /\ nCheckout = 0 /\ cleanup = <<>>
  /\ needsOther = FALSE /\ partial = "none"
  /\ lockHeld = [k \in 1..numChecks |-> 0]
  /\ locker \in [1..numChecks -> BOOLEAN]
  /\ primary = Nil /\ restErrs = <<>>
  /\ InitCovgVars
  /\ InitPrereqVars

\* pre-commit-go run-hook pre-commit | pre-push.
\* The enabled checks of a hook are distinct instances, so a Locker's lock is
\* never contended here; they are taken not to be Lockers (SpecRun and
\* SpecCallRun cover Lockers).
Init ==
  /\ hook \in {"pre-commit", "pre-push"}
  /\ numChecks \in 0..MaxHookChecks
  /\ inst = [i \in 1..numChecks |-> i]
  /\ InitCommon
  /\ InitLoadVars
  /\ locker = [i \in 1..numChecks |-> FALSE]

RunChecks == RCSpawn \/ RCWait \/ RCDrain \/ RCReturn \/ Worker

Next ==
  \/ PreCommitStash \/ PreCommitBetween \/ PreCommitAfterChecks \/ PreCommitRestore
  \/ PrePushEntry \/ PrePushRead \/ PrePushMatch \/ PrePushStash
  \/ PrePushCheckout \/ PrePushBetween \/ PrePushAfterChecks \/ PrePushEnd
  \/ DeferCheckout \/ DeferRestore
  \/ RunChecks

Spec == Init /\ [][Next]_vars

\* pre-commit-go run
InitRun ==
  /\ hook = "run"
  /\ numChecks \in 0..MaxChecks
  /\ inst = [i \in 1..numChecks |-> i]
  /\ InitCommon
  /\ InitLoadVars
  /\ repoRef = Branch /\ dirty = FALSE   \* cmdRun gets a scm.ReadOnlyRepo

NextRun == CmdRun \/ CmdRunReturn \/ RunChecks

SpecRun == InitRun /\ [][NextRun]_vars

\* Concurrent invocations of callRun, some of them on the same check
\* instance: numChecks goroutines that are each about to call callRun, as in
\* runChecks after its spawn loop. Instances are numbered in the order of
\* their first invocation, and only an invoked instance may be a Locker.
InitCallRun ==
  /\ hook = "run"
  /\ numChecks \in 1..MaxCalls
  /\ inst \in {f \in [1..numChecks -> 1..numChecks] :
                 /\ f[1] = 1
                 /\ \A i \in 2..numChecks :
                      \/ \E j \in 1..(i - 1) : f[i] = f[j]
                      \/ /\ \E j \in 1..(i - 1) : f[i] = f[j] + 1
                         /\ \A j \in 1..(i - 1) : f[j] < f[i]}
  /\ locker \in {l \in [1..numChecks -> BOOLEAN] :
                   \A k \in 1..numChecks :
                     l[k] => \E i \in 1..numChecks : inst[i] = k}
  /\ pc = "rc_wait"
  /\ repoHEAD = CommitA /\ repoRef = Branch
  /\ dirty = FALSE /\ snapshot = FALSE
  /\ maxDuration \in 0..MaxBudget
  /\ previous = Nil /\ previousRef = "" /\ curr = Nil
  /\ stashed = FALSE /\ triedToStash = FALSE
  /\ err = Nil /\ line = <<>> /\ from = Nil /\ to = Nil
  /\ change = NilChange /\ nread = 0
  /\ wst = [i \in 1..numChecks |-> "start"]
  /\ werr = [i \in 1..numChecks |-> NilErr]
  /\ wdur = [i \in 1..numChecks |-> 0]
  /\ errs = <<>> /\ wg = numChecks /\ next = numChecks + 1
  /\ rcErr = NilErr /\ rcResult = Nil /\ printed = <<>>
  /\ rec = <<>> /\ recOps = {} /\ betweenArgs = <<>>
  /\ nStash = 0 /\ nRestore = 0 /\ didStash = "none"
  /\ nCheckout = 0 /\ cleanup = <<>>
  /\ needsOther = FALSE /\ partial = "none"
  /\ lockHeld = [k \in 1..numChecks |-> 0]
  /\ primary = Nil /\ restErrs = <<>>
  /\ InitCovgVars
  /\ InitPrereqVars
  /\ InitLoadVars

\* covg [-g] [-min N] [-max N]
InitCovg ==
  /\ hook = "covg"
  /\ numChecks = 0
  /\ inst = <<>>
  /\ InitCommon
  /\ InitLoadVars
  /\ repoRef = Branch /\ dirty = FALSE /\ maxDuration = 0

NextCovg ==
  \/ CovgSetup \/ CovgBetween \/ CovgRunProfile
  \/ CovgGlobal \/ CovgPackage \/ CovgReturn \/ CovgMain

SpecCovg == InitCovg /\ [][NextCovg]_vars

\* pre-commit-go prereq
InitPrereq ==
  /\ hook = "prereq"
  /\ numChecks \in 0..MaxPrereqChecks
  /\ inst = [i \in 1..numChecks |-> i]
  /\ InitCommon
  /\ InitLoadVars
  /\ locker = [i \in 1..numChecks |-> FALSE]
  /\ repoRef = Branch /\ dirty = FALSE /\ maxDuration = 0

NextPrereq ==
  \/ PrereqEntry \/ PrereqNextCheck \/ PrereqSpawn \/ PrereqGoroutine
  \/ PrereqWait \/ PrereqDrain \/ PrereqInstall

SpecPrereq == InitPrereq /\ [][NextPrereq]_vars

\* The parts min_version is made of: numbers below, equal to and above those
\* of version, one with a leading zero, one that does not fit in 32 bits, one
\* that is not a number and the empty string.
Parts ==
  { <<"0">>, <<"4">>, <<"5">>, <<"0", "4">>,
    <<"2", "1", "4", "7", "4", "8", "3", "6", "4", "8">>,
    <<"x">>, <<>> }

\* loadConfigFile(pathname) for a file with any min_version
InitLoad ==
  /\ hook = "load"
  /\ numChecks = 0
  /\ inst = <<>>
  /\ InitCommon
  /\ repoRef = Branch /\ dirty = FALSE /\ maxDuration = 0
  /\ minVersion \in UNION {[1..n -> Parts] : n \in 1..MaxParts}
  /\ loaded = "none"

NextLoad == LoadConfigFile

SpecLoad == InitLoad /\ [][NextLoad]_vars

NextCallRun == \E i \in Checks : WorkerCallRun(i) \/ WorkerRunReturns(i)

SpecCallRun == InitCallRun /\ [][NextCallRun]_vars

\* ------------------------------------------------------------- properties
Restoring == pc \in {"defer_checkout", "defer_restore", "done"}
InRunChecks == pc \in {"rc_spawn", "rc_wait", "rc_drain", "rc_ret"}
Failed(i) == werr[i] # NilErr
OverBudget(i) == wdur[i] > maxDuration
Reported(e) == \E k \in 1..Len(printed) : printed[k] = e

\* C1: when runPrePush returns and the cleanup calls succeeded, the repository
\* is checked out on the reference it was on at entry: the branch Ref()
\* reported when there was one, otherwise the original commit.
C1_BackOnOriginalRef ==
  (hook = "pre-push" /\ pc = "done" /\ restErrs = <<>>)
    => (repoRef = previousRef /\ repoHEAD = previous)

\* C2: on every return of a hook coordinator after a successful Stash(),
\* Restore() was called exactly once if Stash() returned didStash=true and
\* never if it returned false, whatever Between and the checks returned.
C2_RestoreOncePerStash ==
  /\ nRestore <= 1
  /\ (pc = "done" /\ didStash = "yes") => nRestore = 1
  /\ didStash \in {"none", "no", "failed"} => nRestore = 0

C2_Witness ==
  /\ hook = "pre-commit" /\ pc = "done"
  /\ didStash = "yes" /\ nRestore = 1
  /\ primary = ErrChecks

\* C3: runChecks returns a non-nil error if and only if at least one enabled
\* check returned an error or ran longer than the max duration.
C3_ErrorIffSomeCheckFailed ==
  pc = "rc_ret" =>
    (rcResult # Nil <=> \E i \in Checks : Failed(i) \/ OverBudget(i))

C3_Witness ==
  /\ pc = "rc_ret" /\ rcResult # Nil
  /\ \E i, j \in Checks : Failed(i) /\ ~Failed(j) /\ ~OverBudget(j)

\* C4: a line that does not match rePrePush makes runPrePush return the
\* protocol error at once, with no Stash, Checkout, Between or check for that
\* line or a later one, and the cleanup still restores the original
\* checked-out reference and the stash.
C4_MalformedLineAborts ==
  /\ [][(pc = "pp_match" /\ Len(FindStringSubmatch(line)) # 5)
          => (pc' = CleanupOrder[1] /\ err' = ErrProtocol /\ recOps' = {})]_vars
  /\ []((hook = "pre-push" /\ primary = ErrProtocol) =>
          /\ Restoring /\ recOps = {}
          /\ (pc = "done" /\ restErrs = <<>>) =>
               /\ err = ErrProtocol
               /\ repoRef = previousRef /\ repoHEAD = previous
               /\ didStash = "yes" => (nRestore = 1 /\ ~snapshot))

\* C5: the error a hook coordinator returns is the primary error whenever
\* there is one, also when a restoration step failed too; with no primary
\* error it is the first restoration error.
C5_PrimaryErrorWins ==
  pc = "done" =>
    /\ primary # Nil => err = primary
    /\ (primary = Nil /\ restErrs # <<>>) => err = restErrs[1]

C5_Witness ==
  /\ hook = "pre-push" /\ pc = "done"
  /\ primary = ErrChecks /\ Len(restErrs) = 2 /\ err = ErrChecks

\* C6 (as stated): a record whose remote-sha (fourth field) is the all-zero
\* sentinel is skipped: no Stash, Checkout, Between or check happens for it.
C6_RemoteZeroIsSkipped ==
  (hook = "pre-push" /\ rec # <<>> /\ rec[2] = gitNilCommit) => recOps = {}

\* C6 (amended): a record whose local-sha (second field) is the all-zero
\* sentinel is skipped as a ref deletion: no Stash, Checkout, Between or check
\* happens for it and the loop goes on to read the next record.
C6_LocalZeroIsSkipped ==
  (hook = "pre-push" /\ rec # <<>> /\ rec[1] = gitNilCommit) =>
    (recOps = {} /\ pc = "pp_read" /\ err = Nil)

C6_Witness ==
  /\ hook = "pre-push" /\ pc = "pp_read"
  /\ rec = <<gitNilCommit, CommitB>> /\ recOps = {}

\* C7 (as stated): a record whose local-sha (second field) is the all-zero
\* sentinel has Between called with the root reference as lower bound and
\* its checks run, so it is never left behind without them.
C7_LocalZeroDiffsAgainstRoot ==
  (hook = "pre-push" /\ rec # <<>> /\ rec[1] = gitNilCommit /\ pc = "pp_read") =>
    /\ "Between" \in recOps /\ betweenArgs[1] = GitInitialCommit
    /\ numChecks > 0 => "Run" \in recOps

\* C7 (amended): a record whose remote-sha (fourth field) is the all-zero
\* sentinel and whose local-sha is not is diffed against the root reference:
\* Between gets the root reference as lower bound once the record's Stash and
\* Checkout succeeded, and the record is not left before Between and its
\* checks ran.
C7_RemoteZeroDiffsAgainstRoot ==
  (hook = "pre-push" /\ rec # <<>> /\ rec[2] = gitNilCommit /\ rec[1] # gitNilCommit) =>
    /\ "Between" \in recOps => betweenArgs[1] = GitInitialCommit
    /\ InRunChecks => "Between" \in recOps
    /\ pc = "pp_read" =>
         /\ "Between" \in recOps
         /\ numChecks > 0 => "Run" \in recOps

C7_Witness ==
  /\ hook = "pre-push" /\ pc = "pp_read" /\ numChecks > 0
  /\ rec = <<CommitA, gitNilCommit>>
  /\ recOps = {"Between", "Run"} /\ betweenArgs[1] = GitInitialCommit

\* C8: Between is called as Between(RootReference, local-sha, ignorePatterns)
\* for a record with an all-zero remote-sha and as Between(remote-sha,
\* local-sha, ignorePatterns) otherwise, and the checks run on its result.
C8_BetweenArguments ==
  (hook = "pre-push" /\ rec # <<>> /\ "Between" \in recOps) =>
    /\ betweenArgs = <<IF rec[2] = gitNilCommit THEN GitInitialCommit ELSE rec[2],
                       rec[1], IgnorePatterns>>
    /\ InRunChecks =>
         change \in {NilChange, NewChange(betweenArgs[1], betweenArgs[2], betweenArgs[3])}

C8_Witness ==
  /\ hook = "pre-push" /\ pc = "rc_ret"
  /\ rec = <<CommitB, gitNilCommit>> /\ "Run" \in recOps
  /\ betweenArgs = <<GitInitialCommit, CommitB, IgnorePatterns>>
  /\ change = NewChange(GitInitialCommit, CommitB, IgnorePatterns)

\* C9: with N checks of which exactly K return an error and the other N-K
\* succeed within budget, exactly K failures have been printed when runChecks
\* returns.
C9_ExactlyKReported ==
  (pc = "rc_ret" /\ \A i \in Checks : ~Failed(i) => ~OverBudget(i)) =>
    Len(printed) = Cardinality({i \in Checks : Failed(i)})

\* C10: a check that ran longer than maxDuration seconds and returned success
\* has its "took too long" error reported and makes the result non-nil.
C10_SlowSuccessIsFailure ==
  pc = "rc_ret" =>
    \A i \in Checks :
      (~Failed(i) /\ OverBudget(i)) => (Reported(TookTooLong(i)) /\ rcResult # Nil)

C10_Witness ==
  /\ pc = "rc_ret" /\ rcResult = ErrChecks
  /\ \A i \in Checks : ~Failed(i)
  /\ \E i, j \in Checks : OverBudget(i) /\ ~OverBudget(j)
  /\ Len(printed) = 1

\* A goroutine of runChecks that has been spawned and has not called wg.Done().
WorkerAlive(i) == wst[i] \in {"start", "running", "sendErr", "sendTook", "exit"}

\* The coordinator is about to execute Stash, Checkout or Restore.
AtMutation ==
  pc \in {"start", "pp_stash", "pp_checkout", "pc_restore", "defer_checkout", "defer_restore"}

\* C11: every enabled check's Run is started and runs to completion whatever
\* its siblings did: the spawn loop never waits, a spawned check can always
\* start, a started Run can always return, and runChecks gets past the
\* barrier only when every check has run.
C11_EveryCheckRuns ==
  /\ pc = "rc_spawn" => ENABLED RCSpawn
  /\ \A i \in Checks :
       /\ wst[i] = "start" => ENABLED WorkerCallRun(i)
       /\ wst[i] = "running" => ENABLED WorkerRunReturns(i)
  /\ pc \in {"rc_drain", "rc_ret"} => \A i \in Checks : wst[i] = "done"

C11_Witness ==
  /\ pc = "rc_ret" /\ numChecks >= 2
  /\ \E i, j \in Checks : Failed(i) /\ OverBudget(i) /\ ~Failed(j) /\ ~OverBudget(j)
  /\ \A i \in Checks : wst[i] = "done"

\* C12: no check's Run is in progress while the coordinator is at a Stash,
\* Checkout or Restore: a goroutine of runChecks exists only while the
\* coordinator is in the spawn loop or at the barrier.
C12_NoCheckDuringMutation ==
  \A i \in Checks :
    /\ WorkerAlive(i) => pc \in {"rc_spawn", "rc_wait"}
    /\ wst[i] = "running" => ~AtMutation

C12_Witness ==
  /\ hook = "pre-push" /\ pc = "rc_wait"
  /\ \E i \in Checks : wst[i] = "running"
  /\ didStash = "yes" /\ nCheckout = 2

\* C14: runPrePush calls Stash at most once per invocation, also when the
\* first Stash stashed nothing, and a Stash is only ever issued when no
\* Checkout of a record has been issued yet.
C14_StashAtMostOnce ==
  hook = "pre-push" =>
    /\ nStash <= 1
    /\ pc = "pp_stash" => (nStash = 0 /\ nCheckout = 0)

C14_Witness ==
  /\ hook = "pre-push" /\ pc = "done"
  /\ nStash = 1 /\ didStash = "no" /\ nCheckout >= 2

\* The failures a record of runPrePush can end with.
RecordFailures == {ErrStash, ErrCheckout, ErrBetween, ErrChecks}

\* C15: when Stash, Checkout, Between or the checks fail for a record of
\* runPrePush, the function goes straight to its cleanup with that failure as
\* its error; from then on no record is read and no Stash, Checkout of a
\* record, Between or check is invoked, and the failure stays the error.
C15_FailureAborts ==
  /\ [][(hook = "pre-push" /\ primary \notin RecordFailures /\ primary' \in RecordFailures)
          => (pc' = CleanupOrder[1] /\ err' = primary' /\ nread' = nread)]_vars
  /\ [][(hook = "pre-push" /\ primary \in RecordFailures)
          => /\ nread' = nread /\ nStash' = nStash /\ nCheckout' = nCheckout
             /\ betweenArgs' = betweenArgs /\ wst' = wst
             /\ primary' = primary]_vars
  /\ []((hook = "pre-push" /\ primary \in RecordFailures)
          => (Restoring /\ err = primary))

C15_Witness ==
  /\ hook = "pre-push" /\ pc = "done"
  /\ primary = ErrChecks /\ err = ErrChecks
  /\ nread = 1 /\ nCheckout = 1 /\ Len(cleanup) = 2

\* C16: when the input of runPrePush ends (end of stream, every record before
\* it skipped or passed, no record at all included) the function returns nil
\* provided the cleanup steps succeed, and io.EOF is never the error returned.
C16_EndOfStreamIsSuccess ==
  /\ [][(pc = "pp_eof" /\ err = EOF) => (err' = Nil /\ primary' = Nil)]_vars
  /\ []((hook = "pre-push" /\ pc = "done") =>
          /\ err # EOF
          /\ (primary = Nil /\ restErrs = <<>>) => err = Nil)

C16_Witness ==
  /\ hook = "pre-push" /\ pc = "done" /\ err = Nil
  /\ nread >= 2 /\ nCheckout = 1 /\ Len(cleanup) = 2 /\ restErrs = <<>>

\* C20: in the cleanup of runPrePush the checkout back to the original
\* reference is issued before Restore whenever both are issued, and either is
\* issued only when no check is running any more.
C20_CleanupOrdering ==
  hook = "pre-push" =>
    /\ \A k, l \in 1..Len(cleanup) :
         (cleanup[k] = "Restore" /\ cleanup[l] = "Checkout") => l < k
    /\ (cleanup # <<>> \/ pc \in {"defer_checkout", "defer_restore"}) =>
         /\ Restoring
         /\ \A i \in Checks : ~WorkerAlive(i)

C20_Witness ==
  /\ hook = "pre-push" /\ pc = "done"
  /\ cleanup = <<"Checkout", "Restore">>
  /\ numChecks >= 1 /\ "Run" \in recOps /\ primary = ErrChecks

\* The errors check i has sent to the errs channel so far: those still in the
\* channel and those already received by the drain loop.
SentBy(i) ==
  Cardinality({k \in 1..Len(errs) : errs[k].check = i})
    + Cardinality({k \in 1..Len(printed) : printed[k].check = i})

\* C18: runChecks terminates: as long as it has not returned, one of its
\* steps (the coordinator's or a goroutine's) can be taken, so no goroutine is
\* blocked for ever on the errs channel and wg.Wait() is released.
C18_RunChecksTerminates ==
  pc \in {"rc_spawn", "rc_wait", "rc_drain"} => ENABLED RunChecks

\* C19: every check sends at most one error to the errs channel, so at most
\* numChecks errors are sent in all.
C19_AtMostOneFailurePerCheck ==
  /\ \A i \in Checks : SentBy(i) <= 1
  /\ Len(errs) + Len(printed) <= numChecks

\* Invocation i is executing check.Run.
Running(i) == wst[i] = "running"

\* C13: two invocations of callRun on the same Locker instance never execute
\* Run at the same time; the lock of an instance is held only while an
\* invocation on that instance executes Run, so every return releases it;
\* and an invocation can start its Run unless its own instance is a Locker
\* whose Run is being executed, whatever other instances hold or wait for.
C13_LockPerInstance ==
  /\ \A i, j \in Checks :
       (i # j /\ inst[i] = inst[j] /\ locker[inst[i]]) => ~(Running(i) /\ Running(j))
  /\ \A k \in Instances :
       lockHeld[k] # 0 => (Running(lockHeld[k]) /\ inst[lockHeld[k]] = k /\ locker[k])
  /\ \A i \in Checks :
       (wst[i] = "start"
          /\ ~(locker[inst[i]] /\ \E j \in Checks : inst[j] = inst[i] /\ Running(j)))
         => ENABLED WorkerCallRun(i)

C13_Witness ==
  \E i, j, k \in Checks :
    /\ inst[i] = inst[j] /\ i # j /\ locker[inst[i]]
    /\ Running(i) /\ wst[j] = "start" /\ ~ENABLED WorkerCallRun(j)
    /\ inst[k] # inst[i] /\ locker[inst[k]] /\ Running(k)

\* C17: when covg has exited, its exit code is 1 if some call of printProfile
\* (for the global profile or for a package's subset) returned false, and it
\* is 0 only if every call returned true.
C17_ExitCodeReflectsProfiles ==
  (hook = "covg" /\ pc = "cv_exit") =>
    /\ (\E k \in 1..Len(profiles) : ~profiles[k]) => exitCode = 1
    /\ exitCode = 0 => \A k \in 1..Len(profiles) : profiles[k]

\* C21: in runPreCommit a failed Stash is returned at once, with no Between,
\* no check and no Restore; a Between that fails without a change runs no
\* check, Restore is still called when Stash had stashed, and the error of
\* Between is the one returned.
C21_PreCommitFailures ==
  hook = "pre-commit" =>
    /\ didStash = "failed" =>
         /\ pc = "done" /\ err = ErrStash
         /\ recOps = {"Stash"} /\ betweenArgs = <<>> /\ nRestore = 0
         /\ \A i \in Checks : wst[i] = "idle"
    /\ (err = ErrBetween \/ primary = ErrBetween) =>
         /\ pc \in {"pc_restore", "done"} /\ err = ErrBetween
         /\ "Run" \notin recOps /\ change = NilChange
         /\ \A i \in Checks : wst[i] = "idle"
         /\ (pc = "done" /\ didStash = "yes") => nRestore = 1

C21_Witness ==
  /\ hook = "pre-commit" /\ pc = "done" /\ numChecks >= 1
  /\ primary = ErrBetween /\ err = ErrBetween
  /\ didStash = "yes" /\ nRestore = 1 /\ restErrs = <<ErrRestore>>

\* C22: as long as every record of runPrePush was a deletion or had the
\* commit checked out at entry as its target, Stash, Checkout and Restore
\* have not been called, by the loop or by the cleanup, and the repository
\* is as it was at entry, so the checks see the working tree as it is.
C22_UntouchedWhenNotNeeded ==
  /\ []((hook = "pre-push" /\ ~needsOther) =>
          /\ nStash = 0 /\ nCheckout = 0 /\ nRestore = 0 /\ cleanup = <<>>
          /\ ~stashed /\ ~snapshot
          /\ pc # "start" => (repoHEAD = previous /\ repoRef = previousRef))
  /\ [][(hook = "pre-push" /\ ~needsOther') => UNCHANGED repoVars]_vars

C22_Witness ==
  /\ hook = "pre-push" /\ pc = "rc_wait" /\ ~needsOther
  /\ nread = 2 /\ rec[1] = CommitA /\ dirty
  /\ \E i \in Checks : wst[i] = "running"

\* C23: every record on the input of runPrePush is processed, the final one
\* included when no newline ends it: when the function has returned after
\* end of stream, unterminated data that is a record had Between and the
\* checks run for it, and unterminated data that matches no record was
\* rejected with the protocol error.
C23_EveryRecordProcessed ==
  (hook = "pre-push" /\ pc = "done") =>
    /\ partial = "record" => (err # Nil \/ {"Between", "Run"} \subseteq recOps)
    /\ partial = "malformed" => err = ErrProtocol

\* C24: cmdInstallPrereq terminates: as long as it has not returned, one of
\* its steps (the function's or a goroutine's) can be taken, so no goroutine
\* is blocked for ever on the channel of URLs and wg.Wait() is released.
C24_InstallPrereqTerminates ==
  (hook = "prereq" /\ pc \in {"ip_spawn", "ip_wait", "ip_drain", "ip_install"})
    => ENABLED NextPrereq

\* The number a sequence of digits stands for, compared without any width.
RECURSIVE StripZeros(_)
StripZeros(str) ==
  IF Len(str) > 1 /\ Head(str) = "0" THEN StripZeros(Tail(str)) ELSE str

RECURSIVE DigitsCmp(_, _)
DigitsCmp(a, b) ==
  IF a = <<>> THEN 0
  ELSE IF DigitVal(Head(a)) < DigitVal(Head(b)) THEN -1
  ELSE IF DigitVal(Head(a)) > DigitVal(Head(b)) THEN 1
  ELSE DigitsCmp(Tail(a), Tail(b))

NumberCmp(a, b) ==
  LET x == StripZeros(a)
      y == StripZeros(b)
  IN IF Len(x) < Len(y) THEN -1
     ELSE IF Len(x) > Len(y) THEN 1
     ELSE DigitsCmp(x, y)

PartOf(v, i) == IF i <= Len(v) THEN v[i] ELSE <<"0">>

\* Versions compared part by part from the left, a missing part being 0.
RECURSIVE VersionCmp(_, _, _)
VersionCmp(a, b, i) ==
  IF i > Len(a) /\ i > Len(b) THEN 0
  ELSE LET cmp == NumberCmp(PartOf(a, i), PartOf(b, i))
       IN IF cmp # 0 THEN cmp ELSE VersionCmp(a, b, i + 1)

\* Every part is a non-empty sequence of digits.
IntegerParts(v) ==
  \A i \in 1..Len(v) : v[i] # <<>> /\ \A k \in 1..Len(v[i]) : IsDigit(v[i][k])

\* C25: loadConfigFile returns a parsed configuration whose min_version is
\* made of integer parts if and only if that version is less than or equal
\* to the tool's version, compared part by part with missing parts as 0.
C25_AcceptedIffNotNewer ==
  (hook = "load" /\ pc = "lc_parsed" /\ IntegerParts(minVersion)) =>
    (loaded = "config" <=> VersionCmp(minVersion, version, 1) <= 0)

====
